---- MODULE Spec2Model ----
(***************************************************************************)
(* A model of mertics.cc: a Root that creates storage nodes, nodes that    *)
(* keep weak references to their children, commit() on a node's field and  *)
(* Root::visit(), which walks the live children with a fresh Visitor and   *)
(* writes an indented report.                                              *)
(*                                                                         *)
(* Threads take one step at a time.  A step is one access to shared state  *)
(* (the mutex, one half of a field, one weak_ptr::lock(), one child list)  *)
(* together with the thread-local work that follows it.  A field is kept   *)
(* as two halves written one after the other, so that a reader that does   *)
(* not exclude the writer can see a value nobody committed.                *)
(***************************************************************************)
EXTENDS Naturals, Sequences, FiniteSets

\* ------------------------------------------------------------------ bounds
MaxNodes == 2          \* nodes Root::create may make in one run
MaxEdges == 3          \* append() calls in one run
MaxThreads == 2        \* threads of the concurrent specification
ConcNodes == 2         \* the same two limits when several threads run
ConcEdges == 1
SmallNodes == 1        \* the same two limits where one kind of call is studied
SmallEdges == 2

Root == 0
Nodes == 1 .. MaxNodes
TIDs == 1 .. MaxThreads
\* The deepest acyclic chain reaches depth MaxNodes + 1; one more level lets a
\* cyclic graph show that the traversal keeps descending.
DepthCap == MaxNodes + 2

\* ------------------------------------------------------------ field values
InitVal == ""                       \* Field(): content() of a std::string
Values == {"hello", "bye"}          \* what callers commit
Halves == Values \cup {InitVal}
NoArg == [node |-> 0, val |-> InitVal]      \* the thread is in no commit
NoReport == [text |-> <<>>, lines |-> <<>>] \* no report is remembered
Free == 0                                   \* no thread holds the mutex

\* ------------------------------------------------------- the report's text
HeaderLine == " -!- R E P O R T -!-"
TailLine == " -@- _ _ _ _ _ _ -@-"
EndL == "\n"                         \* std::endl
\* Visitor::header() and Visitor::tail()
header == <<HeaderLine, EndL>>
tail == <<TailLine, EndL, EndL, EndL>>
IndentUnit == "  "
LeafMarker == " - "
LineEnd == "\n"

VARIABLES
    threads,    \* the threads that run in this behaviour
    kind,       \* kind[n]: "absent", "Storage", "AtomicStorage" or "destroyed"
    held,       \* held[n]: the caller still owns the shared_ptr create() returned
    children,   \* children[n]: Node::children_, the ids the weak_ptrs refer to
    field,      \* field[n]: the two halves of field_.content
    mutex,      \* Root::mutex_: Free or the thread that holds it
    pc,         \* pc[t]: where thread t is
    arg,        \* arg[t]: the node and value of the commit thread t is in
    stack,      \* stack[t]: the Node::visit activations of t's traversal
    depth,      \* depth[t]: Visitor::depth of t's visitor
    out,        \* out[t]: what t's visitor has written to its sink
    lines,      \* out[t] by line: which node, at which depth, which value
    clean,      \* clean[t]: nothing changed the graph or a field during t's traversal
    done,       \* done[n]: the value of the latest commit on n that has returned
    last,       \* the latest finished report, while the graph is as it was
    since,      \* the nodes committed to since that report
    prev,       \* the report before last, just after last was finished
    prevSince,  \* the nodes committed to between prev and last
    budget,     \* how many nodes and edges the callers of this behaviour make
    ndebug,     \* the build: TRUE when NDEBUG was defined and assert() is empty
    rootAlive,  \* the Root, and with it Root::mutex_, has not been destroyed
    vtype       \* vtype[t]: the class of the visitor of t's traversal

vars == <<threads, kind, held, children, field, mutex, pc, arg, stack, depth,
          out, lines, clean, done, last, since, prev, prevSince, budget,
          ndebug, rootAlive, vtype>>

graphVars == <<kind, held, children>>
visitVars == <<stack, depth, out, lines>>
histVars == <<last, since, prev, prevSince>>
\* What no call of the library changes, and what only few calls change.
envVars == <<threads, budget, ndebug, rootAlive, vtype>>

\* ----------------------------------------------------------------- helpers
StorageKinds == {"Storage", "AtomicStorage"}

\* The node exists: its constructor has run and its destructor has not.
Alive(n) == kind[n] \in StorageKinds

IsAtomic(n) == kind[n] = "AtomicStorage"

Top(t) == stack[t][Len(stack[t])]

Pop(s) == SubSeq(s, 1, Len(s) - 1)

\* The list a Node::visit activation iterates: Root's or a node's children_.
ChildList(n) == children[n]

RECURSIVE CountFrames(_, _)
CountFrames(s, n) ==
    IF s = <<>> THEN 0
    ELSE (IF Head(s).node = n THEN 1 ELSE 0) + CountFrames(Tail(s), n)

RECURSIVE SumFrames(_, _, _)
SumFrames(st, ts, n) ==
    IF ts = {} THEN 0
    ELSE LET t == CHOOSE x \in ts : TRUE
         IN  CountFrames(st[t], n) + SumFrames(st, ts \ {t}, n)

\* The entries of a child list that refer to n.
RECURSIVE RefsIn(_, _)
RefsIn(s, n) ==
    IF s = <<>> THEN 0
    ELSE (IF Head(s) = n THEN 1 ELSE 0) + RefsIn(Tail(s), n)

\* The entries of all child lists that refer to n: the append(n) calls on
\* parents that still exist.
RECURSIVE SumRefs(_, _, _)
SumRefs(ch, ps, n) ==
    IF ps = {} THEN 0
    ELSE LET q == CHOOSE x \in ps : TRUE
         IN  RefsIn(ch[q], n) + SumRefs(ch, ps \ {q}, n)

Appended(n) == SumRefs(children, {Root} \cup Nodes, n)

\* (a slip: NodeList a list of shared_ptr, every entry an owner)
UseCountWithParents(h, st, n) ==
    (IF h[n] THEN 1 ELSE 0) + SumFrames(st, TIDs, n) + Appended(n)
\* shared_ptr use count of n: the caller's handle and the `pointer` locals of
\* the traversals that are inside n.
UseCount(h, st, n) == (IF h[n] THEN 1 ELSE 0) + SumFrames(st, TIDs, n)

RECURSIVE SumLen(_, _)
SumLen(ch, ns) ==
    IF ns = {} THEN 0
    ELSE LET n == CHOOSE x \in ns : TRUE
         IN  Len(ch[n]) + SumLen(ch, ns \ {n})

\* The append() calls made so far (a destroyed node's list is gone with it).
TotalEdges == SumLen(children, {Root} \cup Nodes)

\* The caller can name p: the Root while it exists, a node through a handle.
Callable(p) == (p = Root /\ rootAlive) \/ (p \in Nodes /\ held[p])

\* How many nodes and child references a behaviour may make.
NodeBudget == budget.nodes
EdgeBudget == budget.edges

\* The nodes whose last strong pointer is gone once the handles are h and the
\* traversals' activations are st: ~Node() runs for each.
Dying(h, st) == {n \in Nodes : Alive(n) /\ UseCount(h, st, n) = 0}

\* What a field shows when it is written to a stream: its content, or, when a
\* write is half done, the two halves it holds.
Shown(f) == IF f[1] = f[2] THEN f[1] ELSE f[1] \o "~" \o f[2]

\* (a slip: only the first half of the new content stored)
WrittenFirstHalf(f, half, v) == [f EXCEPT ![1] = v]
\* Field::operator= on one half of the content.
Written(f, half, v) == [f EXCEPT ![half] = v]

\* (a slip: one field_ shared by all nodes)
StoredEverywhere(fl, n, half, v) == [m \in Nodes |-> Written(fl[m], half, v)]
\* commit() assigns to the field_ of the node it is called on.
Stored(fl, n, half, v) == [fl EXCEPT ![n] = Written(@, half, v)]

\* The graph after the nodes of D are destroyed.
KindAfter(D) == [n \in Nodes |-> IF n \in D THEN "destroyed" ELSE kind[n]]
ChildrenAfter(ch, D) == [n \in {Root} \cup Nodes |-> IF n \in D THEN <<>> ELSE ch[n]]
FieldAfter(fl, D) == [n \in Nodes |-> IF n \in D THEN <<InitVal, InitVal>> ELSE fl[n]]
DoneAfter(dn, D) == [n \in Nodes |-> IF n \in D THEN InitVal ELSE dn[n]]

\* Successive reports are remembered, to be compared, for a single caller.
Remembers == Cardinality(threads) = 1

\* A traversal that is under way when the graph or a field changes is no longer
\* a traversal of one graph.
Disturbed == [t \in TIDs |-> clean[t] /\ pc[t] = "idle"]

\* The finished reports are compared with the graph as it is: a change of the
\* graph's shape forgets them.
ForgetReports ==
    /\ last' = NoReport
    /\ since' = {}
    /\ prev' = NoReport
    /\ prevSince' = {}

\* -------------------------------------------------------------------- Init
InitAll(ts, b, builds) ==
    /\ threads = ts
    /\ budget = b
    /\ ndebug \in builds
    /\ rootAlive = TRUE
    /\ vtype = [t \in TIDs |-> "Visitor"]
    /\ kind = [n \in Nodes |-> "absent"]
    /\ held = [n \in Nodes |-> FALSE]
    /\ children = [n \in {Root} \cup Nodes |-> <<>>]
    /\ field = [n \in Nodes |-> <<InitVal, InitVal>>]
    /\ mutex = Free
    /\ pc = [t \in TIDs |-> "idle"]
    /\ arg = [t \in TIDs |-> NoArg]
    /\ stack = [t \in TIDs |-> <<>>]
    /\ depth = [t \in TIDs |-> 0]
    /\ out = [t \in TIDs |-> <<>>]
    /\ lines = [t \in TIDs |-> <<>>]
    /\ clean = [t \in TIDs |-> TRUE]
    /\ done = [n \in Nodes |-> InitVal]
    /\ last = NoReport
    /\ since = {}
    /\ prev = NoReport
    /\ prevSince = {}

\* The source as it is compiled by default: <cassert> with NDEBUG not defined.
InitWith(ts) ==
    InitAll(ts,
            IF Cardinality(ts) > 1
            THEN [nodes |-> ConcNodes, edges |-> ConcEdges]
            ELSE [nodes |-> MaxNodes, edges |-> MaxEdges],
            {FALSE})

\* One thread: main() of the source, every call made by the same caller.
Init == InitWith({1})

\* Several threads that share the Root and the handles.
InitConc == InitWith(TIDs)

\* ----------------------------------------------------------- Root::create
\* new STORAGE(*this): the node gets the next id and the caller the only handle.
create(t, k) ==
    /\ pc[t] = "idle"
    /\ rootAlive
    /\ \E n \in Nodes :
        /\ n <= NodeBudget
        /\ kind[n] = "absent"
        /\ \A m \in Nodes : m < n => kind[m] # "absent"
        /\ kind' = [kind EXCEPT ![n] = k]
        /\ held' = [held EXCEPT ![n] = TRUE]
    /\ UNCHANGED <<envVars, children, field, mutex, pc, arg, visitVars, clean,
                   done, histVars>>

\* ----------------------------------------------------------- Node::append
\* children_.emplace_back(child): p is Root or a node the caller has a handle
\* of, child is made from a handle the caller has.  Nothing about the child is
\* looked at.
append(t, p, c) ==
    /\ pc[t] = "idle"
    /\ Callable(p)
    /\ held[c]
    /\ TotalEdges < EdgeBudget
    /\ children' = [children EXCEPT ![p] = Append(@, c)]
    /\ clean' = Disturbed
    /\ ForgetReports
    /\ UNCHANGED <<envVars, kind, held, field, mutex, pc, arg, visitVars, done>>

\* ------------------------------------------------- the caller drops a handle
\* The shared_ptr create() returned goes out of scope (main, lines 145, 148).
\* A handle is not dropped while a commit through it is running.
release(t, n) ==
    /\ pc[t] = "idle"
    /\ held[n]
    /\ \A u \in TIDs : arg[u].node # n
    /\ LET h == [held EXCEPT ![n] = FALSE]
           D == Dying(h, stack)
       IN  /\ held' = h
           /\ kind' = KindAfter(D)
           /\ children' = ChildrenAfter(children, D)
           /\ field' = FieldAfter(field, D)
           /\ done' = DoneAfter(done, D)
    /\ clean' = Disturbed
    /\ ForgetReports
    /\ UNCHANGED <<envVars, mutex, pc, arg, visitVars>>

\* -------------------------------------------------------------- Node::trim
\* abort(), called by a failed assert(): the process ends, no thread takes
\* another step.
Aborted == [u \in TIDs |-> "aborted"]

\* node.trim() is called on the Root or through a handle.
trimCall(t, n) ==
    /\ pc[t] = "idle"
    /\ Callable(n)
    /\ pc' = [pc EXCEPT ![t] = "trim"]
    /\ arg' = [arg EXCEPT ![t] = [node |-> n, val |-> InitVal]]
    /\ UNCHANGED <<envVars, graphVars, field, mutex, visitVars, clean, done,
                   histVars>>

\* The body of trim(): assert(!"unimplemented").  The condition is false, so
\* the assert aborts; with NDEBUG defined the macro expands to nothing and the
\* call returns.
trimAssert(t) ==
    /\ pc[t] = "trim"
    /\ IF ndebug
       THEN /\ pc' = [pc EXCEPT ![t] = "idle"]
            /\ arg' = [arg EXCEPT ![t] = NoArg]
       ELSE /\ pc' = Aborted
            /\ UNCHANGED arg
    /\ UNCHANGED <<envVars, graphVars, field, mutex, visitVars, clean, done,
                   histVars>>

\* ------------------------------------------------------------- the mutex
\* (a slip: the mutex taken without waiting for its holder)
LockGuardNoWait(t) == mutex' = t
\* std::lock_guard<std::mutex> lock(mutex_): waits until the mutex is free.
LockGuard(t) == mutex = Free /\ mutex' = t

\* (a slip: the lock_guard not confined to a block of its own, the mutex kept)
UnlockForgotten(t) == mutex' = mutex
\* ~lock_guard(): the mutex is free again.
Unlock(t) == mutex' = Free

\* Which commit takes the Root's mutex: AtomicStorage::commit does,
\* Storage::commit does not.
CommitLocks(n) == IsAtomic(n)

\* (a slip: AtomicStorage::visit written like Storage::visit)
VisitLocksNever(n) == FALSE
\* Which visit takes the Root's mutex around the render of the field:
\* AtomicStorage::visit does, Storage::visit does not.
VisitLocks(n) == IsAtomic(n)

\* ------------------------------------------------------------------ commit
\* metric->commit(v), through a handle the caller has.
commitCall(t, n, v) ==
    /\ pc[t] = "idle"
    /\ held[n]
    /\ arg' = [arg EXCEPT ![t] = [node |-> n, val |-> v]]
    /\ pc' = [pc EXCEPT ![t] = IF CommitLocks(n) THEN "c_lock" ELSE "c_write1"]
    /\ UNCHANGED <<envVars, graphVars, field, mutex, visitVars, clean, done,
                   histVars>>

commitLock(t) ==
    /\ pc[t] = "c_lock"
    /\ rootAlive
    /\ LockGuard(t)
    /\ pc' = [pc EXCEPT ![t] = "c_write1"]
    /\ UNCHANGED <<envVars, graphVars, field, arg, visitVars, clean, done,
                   histVars>>

\* field_ = newValue, first half.  From here on the reports remembered no
\* longer show this node's value.
commitWrite1(t) ==
    /\ pc[t] = "c_write1"
    /\ field' = Stored(field, arg[t].node, 1, arg[t].val)
    /\ pc' = [pc EXCEPT ![t] = "c_write2"]
    /\ clean' = Disturbed
    /\ since' = IF last = NoReport THEN {} ELSE since \cup {arg[t].node}
    /\ prev' = NoReport
    /\ prevSince' = {}
    /\ UNCHANGED <<envVars, graphVars, mutex, arg, visitVars, done, last>>

\* field_ = newValue, second half; Storage::commit returns here.
commitWrite2(t) ==
    /\ pc[t] = "c_write2"
    /\ field' = Stored(field, arg[t].node, 2, arg[t].val)
    /\ clean' = Disturbed
    /\ IF CommitLocks(arg[t].node)
       THEN /\ pc' = [pc EXCEPT ![t] = "c_unlock"]
            /\ UNCHANGED <<arg, done>>
       ELSE /\ pc' = [pc EXCEPT ![t] = "idle"]
            /\ done' = [done EXCEPT ![arg[t].node] = arg[t].val]
            /\ arg' = [arg EXCEPT ![t] = NoArg]
    /\ UNCHANGED <<envVars, graphVars, mutex, visitVars, histVars>>

\* AtomicStorage::commit returns: the lock_guard is destroyed.
commitUnlock(t) ==
    /\ pc[t] = "c_unlock"
    /\ Unlock(t)
    /\ done' = [done EXCEPT ![arg[t].node] = arg[t].val]
    /\ arg' = [arg EXCEPT ![t] = NoArg]
    /\ pc' = [pc EXCEPT ![t] = "idle"]
    /\ UNCHANGED <<envVars, graphVars, field, visitVars, clean, histVars>>

\* ----------------------------------------------------------------- Visitor
\* Visitor::prefix(): for (counter = 1; counter < depth; ++counter) "  ", then " - ".
RECURSIVE PrefixFrom(_, _)
PrefixFrom(counter, d) ==
    IF counter < d THEN <<IndentUnit>> \o PrefixFrom(counter + 1, d)
    ELSE <<LeafMarker>>

\* (a slip: the counter started at 0)
prefixFromZero(d) == PrefixFrom(0, d)
prefix(d) == PrefixFrom(1, d)

\* Visitor::suffix()
suffix == <<LineEnd>>

\* (a slip: header() called by the constructor and by Root::visit as well)
ConstructedTwice == header \o header
\* Visitor::Visitor() calls header(); ~Visitor() calls tail().
Constructed == header
Destructed == tail

\* A class derived from Visitor that overrides header() and tail() to write a
\* frame of its own.
OverridingHeader == <<"== styled report ==", EndL>>
OverridingTail == <<"== end ==", EndL>>

\* The class whose virtual functions are called from inside Visitor::Visitor()
\* and Visitor::~Visitor() of an object of class ty: while the base class is
\* constructed or destroyed the object is a Visitor, so a call of header() or
\* tail() made there runs Visitor's own function.
DuringBase(ty) == "Visitor"

\* What the construction and the destruction of a visitor of class ty write.
ConstructedAs(ty) ==
    IF DuringBase(ty) = "Visitor" THEN Constructed ELSE OverridingHeader
DestructedAs(ty) ==
    IF DuringBase(ty) = "Visitor" THEN Destructed ELSE OverridingTail

\* ++visitor.depth and --visitor.depth of Node::visit.
\* (a slip: the depth counted up twice in Node::visit)
IncrementedTwice(d) == d + 2
Incremented(d) == d + 1
\* (a slip: the decrement at the end of Node::visit left out)
NotDecremented(d) == d
Decremented(d) == d - 1

\* The loop of Node::visit goes through the list front to back, and after an
\* expired child goes on with the next one.
\* (a slip: the list gone through back to front)
ChildAtReversed(n, i) == ChildList(n)[Len(ChildList(n)) + 1 - i]
ChildAt(n, i) == ChildList(n)[i]
\* (a slip: the loop left at the first expired child)
AfterSkipBreak(f) == Len(ChildList(f.node)) + 1
AfterSkip(f) == f.idx + 1

\* The depth visitor.depth has where it is not inside any traversal: member
\* initialiser of Visitor::depth.
DepthAtRest == 0

\* (a slip: a child that the traversal is inside of already is passed over)
ResolvesOffPath(t, c) == Alive(c) /\ CountFrames(stack[t], c) = 0
\* (a slip: a child that has its line already is passed over)
ResolvesUnseen(t, c) ==
    Alive(c) /\ \A i \in 1 .. Len(lines[t]) : lines[t][i].node # c
\* if (auto pointer = child.lock()): the child is entered when its weak_ptr
\* still locks, whatever the child is and wherever it has been seen before.
Resolves(t, c) == Alive(c)

\* (a slip: a render that takes the content out of the field)
RenderedAway(f) == <<InitVal, InitVal>>
\* Field::visit is const: the field after it has been rendered.
Rendered(f) == f

\* (a slip: the lock_guard in the body of visit, not in a block of its own)
AfterRenderKeepsLock(n) == "v_suffix"
\* After field_.visit: the end of the lock_guard's block where there is one,
\* else visitor.suffix().
AfterRender(n) == IF VisitLocks(n) THEN "v_unlock" ELSE "v_suffix"

\* What field_.visit(visitor) may write for node n: the field's content; when
\* the visit takes no lock and another thread is between the two halves of a
\* write of the same field, the read races with the write and may show any
\* mixture.
RenderValues(t, n) ==
    IF ~VisitLocks(n)
       /\ \E u \in TIDs \ {t} : pc[u] = "c_write2" /\ arg[u].node = n
    THEN {Shown(<<a, b>>) : a \in Halves, b \in Halves}
    ELSE {Shown(field[n])}

\* ------------------------------------------------------------- Root::visit
\* Visitor visitor; Node::visit(visitor): the header is written, then
\* Node::visit(visitor, children_) of the Root starts with ++visitor.depth.
visitCall(t) ==
    /\ pc[t] = "idle"
    /\ rootAlive
    /\ vtype' = [vtype EXCEPT ![t] = "Visitor"]
    /\ out' = [out EXCEPT ![t] = Constructed]
    /\ lines' = [lines EXCEPT ![t] = <<>>]
    /\ depth' = [depth EXCEPT ![t] = Incremented(0)]
    /\ stack' = [stack EXCEPT ![t] = <<[node |-> Root, idx |-> 1]>>]
    /\ clean' = [clean EXCEPT ![t] = TRUE]
    /\ pc' = [pc EXCEPT ![t] = "loop"]
    /\ prev' = NoReport
    /\ prevSince' = {}
    /\ UNCHANGED <<threads, budget, ndebug, rootAlive, graphVars, field, mutex,
                   arg, done, last, since>>

\* Node::visit(visitor) called on the Root with a visitor the caller has made
\* from a class that overrides header() and tail(); Root::visit() itself
\* takes no visitor.
visitStyled(t) ==
    /\ pc[t] = "idle"
    /\ rootAlive
    /\ vtype' = [vtype EXCEPT ![t] = "Styled"]
    /\ out' = [out EXCEPT ![t] = ConstructedAs("Styled")]
    /\ lines' = [lines EXCEPT ![t] = <<>>]
    /\ depth' = [depth EXCEPT ![t] = Incremented(0)]
    /\ stack' = [stack EXCEPT ![t] = <<[node |-> Root, idx |-> 1]>>]
    /\ clean' = [clean EXCEPT ![t] = TRUE]
    /\ pc' = [pc EXCEPT ![t] = "loop"]
    /\ prev' = NoReport
    /\ prevSince' = {}
    /\ UNCHANGED <<threads, budget, ndebug, rootAlive, graphVars, field, mutex,
                   arg, done, last, since>>

\* The loop of Node::visit at a child whose weak_ptr still locks:
\* pointer->visit(visitor) enters the storage node's visit, which writes the
\* prefix.
visitChild(t) ==
    /\ pc[t] = "loop"
    /\ depth[t] < DepthCap
    /\ LET f == Top(t)
       IN  /\ f.idx <= Len(ChildList(f.node))
           /\ LET c == ChildAt(f.node, f.idx)
              IN  /\ Resolves(t, c)
                  /\ stack' = [stack EXCEPT ![t] = Append(@, [node |-> c, idx |-> 1])]
                  /\ out' = [out EXCEPT ![t] = @ \o prefix(depth[t])]
                  /\ lines' = [lines EXCEPT ![t] =
                                  Append(@, [node |-> c, kind |-> kind[c], depth |-> depth[t],
                                             edges |-> Len(stack[t]), value |-> InitVal])]
                  /\ pc' = [pc EXCEPT ![t] = IF VisitLocks(c) THEN "v_lock" ELSE "v_render"]
    /\ UNCHANGED <<envVars, graphVars, field, mutex, arg, depth, clean, done,
                   histVars>>

\* The loop of Node::visit at a child whose weak_ptr has expired: nothing is
\* written and the loop goes on.
visitSkip(t) ==
    /\ pc[t] = "loop"
    /\ LET f == Top(t)
       IN  /\ f.idx <= Len(ChildList(f.node))
           /\ ~Resolves(t, ChildAt(f.node, f.idx))
           /\ stack' = [stack EXCEPT ![t][Len(stack[t])].idx = AfterSkip(f)]
    /\ UNCHANGED <<envVars, graphVars, field, mutex, pc, arg, depth, out, lines,
                   clean, done, histVars>>

\* AtomicStorage::visit: the lock_guard around field_.visit.
visitLock(t) ==
    /\ pc[t] = "v_lock"
    /\ LockGuard(t)
    /\ pc' = [pc EXCEPT ![t] = "v_render"]
    /\ UNCHANGED <<envVars, graphVars, field, arg, visitVars, clean, done,
                   histVars>>

\* field_.visit(visitor): visitor.output << content.
visitRender(t) ==
    /\ pc[t] = "v_render"
    /\ LET n == Top(t).node
       IN  /\ \E v \in RenderValues(t, n) :
               /\ out' = [out EXCEPT ![t] = Append(@, v)]
               /\ lines' = [lines EXCEPT ![t][Len(lines[t])].value = v]
           /\ field' = [field EXCEPT ![n] = Rendered(@)]
           /\ pc' = [pc EXCEPT ![t] = AfterRender(n)]
    /\ UNCHANGED <<envVars, graphVars, mutex, arg, stack, depth, clean, done,
                   histVars>>

\* The end of the lock_guard's block in AtomicStorage::visit.
visitUnlock(t) ==
    /\ pc[t] = "v_unlock"
    /\ Unlock(t)
    /\ pc' = [pc EXCEPT ![t] = "v_suffix"]
    /\ UNCHANGED <<envVars, graphVars, field, arg, visitVars, clean, done,
                   histVars>>

\* visitor.suffix(); then Node::visit(visitor, children) starts with
\* ++visitor.depth.
visitSuffix(t) ==
    /\ pc[t] = "v_suffix"
    /\ out' = [out EXCEPT ![t] = @ \o suffix]
    /\ depth' = [depth EXCEPT ![t] = Incremented(@)]
    /\ pc' = [pc EXCEPT ![t] = "loop"]
    /\ UNCHANGED <<envVars, graphVars, field, mutex, arg, stack, lines, clean,
                   done, histVars>>

\* The loop of a storage node's Node::visit is over: --visitor.depth, the call
\* returns into the parent's loop, `pointer` is destroyed (and the node with
\* it, if that was its last strong pointer) and the parent's loop moves on.
visitReturn(t) ==
    /\ pc[t] = "loop"
    /\ Len(stack[t]) > 1
    /\ Top(t).idx > Len(ChildList(Top(t).node))
    /\ depth' = [depth EXCEPT ![t] = Decremented(@)]
    /\ LET st == [stack EXCEPT ![t] = [Pop(@) EXCEPT ![Len(@) - 1].idx = @ + 1]]
           D == Dying(held, st)
       IN  /\ stack' = st
           /\ kind' = KindAfter(D)
           /\ children' = ChildrenAfter(children, D)
           /\ field' = FieldAfter(field, D)
           /\ done' = DoneAfter(done, D)
           /\ IF D = {}
              THEN UNCHANGED <<clean, histVars>>
              ELSE clean' = Disturbed /\ ForgetReports
    /\ UNCHANGED <<envVars, held, mutex, pc, arg, out, lines>>

\* The loop of the Root's Node::visit is over: --visitor.depth, Root::visit
\* returns and ~Visitor() writes the tail.  The report is complete.
visitFinish(t) ==
    /\ pc[t] = "loop"
    /\ Len(stack[t]) = 1
    /\ Top(t).idx > Len(ChildList(Top(t).node))
    /\ depth' = [depth EXCEPT ![t] = Decremented(@)]
    /\ stack' = [stack EXCEPT ![t] = <<>>]
    /\ out' = [out EXCEPT ![t] = <<>>]
    /\ lines' = [lines EXCEPT ![t] = <<>>]
    /\ pc' = [pc EXCEPT ![t] = "idle"]
    /\ IF clean[t] /\ Remembers
       THEN /\ last' = [text |-> out[t] \o DestructedAs(vtype[t]), lines |-> lines[t]]
            /\ prev' = last
            /\ prevSince' = since
       ELSE /\ last' = NoReport
            /\ prev' = NoReport
            /\ prevSince' = {}
    /\ since' = {}
    /\ UNCHANGED <<envVars, graphVars, field, mutex, arg, clean, done>>

\* -------------------------------------------------------------------- Next
Next ==
    \/ \E t \in threads, k \in StorageKinds : create(t, k)
    \/ \E t \in threads, p \in {Root} \cup Nodes, c \in Nodes : append(t, p, c)
    \/ \E t \in threads, n \in Nodes : release(t, n)
    \/ \E t \in threads, n \in Nodes, v \in Values : commitCall(t, n, v)
    \/ \E t \in threads : commitLock(t)
    \/ \E t \in threads : commitWrite1(t)
    \/ \E t \in threads : commitWrite2(t)
    \/ \E t \in threads : commitUnlock(t)
    \/ \E t \in threads : visitCall(t)
    \/ \E t \in threads : visitChild(t)
    \/ \E t \in threads : visitSkip(t)
    \/ \E t \in threads : visitLock(t)
    \/ \E t \in threads : visitRender(t)
    \/ \E t \in threads : visitUnlock(t)
    \/ \E t \in threads : visitSuffix(t)
    \/ \E t \in threads : visitReturn(t)
    \/ \E t \in threads : visitFinish(t)
    \/ \E t \in threads, n \in {Root} \cup Nodes : trimCall(t, n)
    \/ \E t \in threads : trimAssert(t)

\* One caller.
Spec == Init /\ [][Next]_vars

\* Several threads.
SpecConc == InitConc /\ [][Next]_vars

\* ------------------------------------------------------------------ ~Root
\* The Root goes out of scope while no call on it is running: children_ and
\* mutex_ are destroyed.  The list holds weak references only, so no storage
\* node is destroyed with it, and nothing tells the AtomicStorage nodes that
\* their mutex_ reference now dangles.
destroyRoot(t) ==
    /\ pc[t] = "idle"
    /\ rootAlive
    /\ mutex = Free
    /\ \A u \in threads : stack[u] = <<>> /\ (pc[u] = "trim" => arg[u].node # Root)
    /\ rootAlive' = FALSE
    /\ children' = [children EXCEPT ![Root] = <<>>]
    /\ clean' = Disturbed
    /\ ForgetReports
    /\ UNCHANGED <<threads, budget, ndebug, vtype, kind, held, field, mutex, pc,
                   arg, visitVars, done>>

\* std::lock_guard<std::mutex> lock(mutex_) in AtomicStorage::commit after the
\* Root is gone: mutex_ refers to a destroyed object, the behaviour is
\* undefined.  The call goes on as if it had the lock, whoever else is inside,
\* or the process dies; a call that hangs takes no step.
commitDangling(t) ==
    /\ pc[t] = "c_lock"
    /\ ~rootAlive
    /\ \/ mutex' = t /\ pc' = [pc EXCEPT ![t] = "c_write1"]
       \/ mutex' = mutex /\ pc' = Aborted
    /\ UNCHANGED <<envVars, graphVars, field, arg, visitVars, clean, done,
                   histVars>>

\* The calls of Next, and a Root that is destroyed before its nodes.
NextLife ==
    \/ Next
    \/ \E t \in threads : destroyRoot(t)
    \/ \E t \in threads : commitDangling(t)

\* One caller whose Root does not outlive the handles.
InitLife == InitAll({1}, [nodes |-> SmallNodes, edges |-> SmallEdges], {FALSE})
SpecLife == InitLife /\ [][NextLife]_vars

\* Several threads on one node that is appended more than once.
InitOwn == InitAll(TIDs, [nodes |-> SmallNodes, edges |-> SmallEdges], {FALSE})
SpecOwn == InitOwn /\ [][Next]_vars

\* ------------------------------------------- threads that commit and visit
\* A graph without a cycle that the callers have built before the threads
\* start, as main() does: create twice, root.append(1), 1.append(2), and the
\* handle of node 2 kept or dropped.
BuiltKinds ==
    {k \in [Nodes -> StorageKinds \cup {"destroyed"}] :
        /\ k[1] = "AtomicStorage"
        /\ \A n \in Nodes : n > 2 => k[n] = "destroyed"}

BuiltChildren(k) ==
    [p \in {Root} \cup Nodes |->
        IF p = Root THEN <<1>>
        ELSE IF p = 1 /\ k[1] # "destroyed" THEN <<2>>
        ELSE <<>>]

InitCalls ==
    /\ threads = TIDs
    /\ budget = [nodes |-> MaxNodes, edges |-> MaxEdges]
    /\ ndebug = FALSE
    /\ rootAlive = TRUE
    /\ vtype = [t \in TIDs |-> "Visitor"]
    /\ kind \in BuiltKinds
    /\ held = [n \in Nodes |-> kind[n] \in StorageKinds]
    /\ children = BuiltChildren(kind)
    /\ field = [n \in Nodes |-> <<InitVal, InitVal>>]
    /\ mutex = Free
    /\ pc = [t \in TIDs |-> "idle"]
    /\ arg = [t \in TIDs |-> NoArg]
    /\ stack = [t \in TIDs |-> <<>>]
    /\ depth = [t \in TIDs |-> 0]
    /\ out = [t \in TIDs |-> <<>>]
    /\ lines = [t \in TIDs |-> <<>>]
    /\ clean = [t \in TIDs |-> TRUE]
    /\ done = [n \in Nodes |-> InitVal]
    /\ last = NoReport
    /\ since = {}
    /\ prev = NoReport
    /\ prevSince = {}

\* The content the threads commit.
CallValues == {"hello"}

\* Only commit and Root::visit are called.
NextCalls ==
    \/ \E t \in threads, n \in Nodes, v \in CallValues : commitCall(t, n, v)
    \/ \E t \in threads : commitLock(t)
    \/ \E t \in threads : commitWrite1(t)
    \/ \E t \in threads : commitWrite2(t)
    \/ \E t \in threads : commitUnlock(t)
    \/ \E t \in threads : visitCall(t)
    \/ \E t \in threads : visitChild(t)
    \/ \E t \in threads : visitSkip(t)
    \/ \E t \in threads : visitLock(t)
    \/ \E t \in threads : visitRender(t)
    \/ \E t \in threads : visitUnlock(t)
    \/ \E t \in threads : visitSuffix(t)
    \/ \E t \in threads : visitReturn(t)
    \/ \E t \in threads : visitFinish(t)

\* A step of a call that waits for nothing.
Proceed(t) ==
    \/ commitWrite1(t) \/ commitWrite2(t) \/ commitUnlock(t)
    \/ visitChild(t) \/ visitSkip(t) \/ visitRender(t) \/ visitUnlock(t)
    \/ visitSuffix(t) \/ visitReturn(t) \/ visitFinish(t)

\* The step that waits for the mutex.
Acquire(t) == commitLock(t) \/ visitLock(t)

\* Fair scheduling: a thread that can go on does go on, and a thread that
\* waits for the mutex gets it if the mutex is free again and again.  No
\* thread has to start a call.
FairScheduling ==
    \A t \in TIDs : WF_vars(Proceed(t)) /\ SF_vars(Acquire(t))

SpecCalls == InitCalls /\ [][NextCalls]_vars /\ FairScheduling

\* The calls of Next, and traversals with a visitor of a derived class.
NextStyles ==
    \/ Next
    \/ \E t \in threads : visitStyled(t)

InitStyles == InitAll({1}, [nodes |-> SmallNodes, edges |-> SmallEdges], {FALSE})
SpecStyles == InitStyles /\ [][NextStyles]_vars

\* One caller, the source compiled with or without -DNDEBUG.
InitBuilds == InitAll({1}, [nodes |-> SmallNodes, edges |-> SmallEdges], BOOLEAN)
SpecBuilds == InitBuilds /\ [][Next]_vars

\* =================================================================== claims
Range(q) == {q[i] : i \in 1 .. Len(q)}

\* A report is remembered.
HasReport == last # NoReport

\* The nodes of the lines of a report, in the report's order.
NodesOf(ls) == [i \in 1 .. Len(ls) |-> ls[i].node]

\* The nodes one live child reference away from Root or from a node of S.
LiveStep(S) ==
    {c \in Nodes : Alive(c) /\ \E p \in S \cup {Root} : c \in Range(children[p])}

RECURSIVE LiveClosure(_, _)
LiveClosure(S, k) == IF k = 0 THEN S ELSE LiveClosure(S \cup LiveStep(S), k - 1)

\* The nodes at the end of a path of child references from Root on which every
\* node is alive.
LiveReach == LiveClosure({}, MaxNodes)

\* C1: a finished report of Root.visit() has a line for a node if and only if a
\* path of child references leads from Root to the node on which every node,
\* the node itself included, is alive; an expired child gives no line and does
\* not stop the traversal, so the siblings appended after it have their lines.
C1_LinesAreLiveReachable ==
    HasReport => Range(NodesOf(last.lines)) = LiveReach

\* A report was finished on a graph in which Root has an expired child followed
\* by a live one, and the live one has its line.
C1_Witness ==
    /\ HasReport
    /\ \E i, j \in 1 .. Len(children[Root]) :
        /\ i < j
        /\ ~Alive(children[Root][i])
        /\ Alive(children[Root][j])
        /\ children[Root][j] \in Range(NodesOf(last.lines))

\* The lines depth-first pre-order gives for the child list q: for each live
\* child in the order of the list, the child and then all of its subtree.
RECURSIVE PreOrder(_, _)
PreOrder(q, fuel) ==
    IF q = <<>> \/ fuel = 0 THEN <<>>
    ELSE (IF Alive(Head(q))
          THEN <<Head(q)>> \o PreOrder(children[Head(q)], fuel - 1)
          ELSE <<>>)
         \o PreOrder(Tail(q), fuel)

\* C2: the lines of a finished report are in depth-first pre-order: a node's
\* line, then the subtrees of its children in the order in which they were
\* appended, each child's whole subtree before the next sibling's line.
C2_PreOrder ==
    HasReport => NodesOf(last.lines) = PreOrder(children[Root], DepthCap)

\* A finished report in which a child's subtree stands between the child's
\* line and the line of its next sibling.
C2_Witness ==
    /\ HasReport
    /\ Len(children[Root]) >= 2
    /\ Len(last.lines) >= 3
    /\ last.lines[1].node = children[Root][1]
    /\ last.lines[2].depth = 2
    /\ last.lines[3].depth = 1
    /\ last.lines[3].node = children[Root][2]
    /\ last.lines[3].node # last.lines[1].node

\* The traversals under way.
Visiting(t) == t \in threads /\ pc[t] # "idle" /\ stack[t] # <<>>
AtNode(t) == Visiting(t) /\ pc[t] \in {"v_lock", "v_render", "v_unlock", "v_suffix"}

\* C3: when a storage node writes its prefix, visitor.depth is the number of
\* child references on the traversal's path from Root to the node: 1 for
\* Root's children, d + 1 for a child of a node at depth d.
C3_DepthIsPathLength ==
    /\ \A t \in threads : \A i \in 1 .. Len(lines[t]) :
          lines[t][i].depth = lines[t][i].edges
    /\ \A t \in threads : AtNode(t) =>
          /\ depth[t] = Len(stack[t]) - 1
          /\ lines[t][Len(lines[t])].depth = depth[t]
    /\ HasReport => \A i \in 1 .. Len(last.lines) :
          last.lines[i].depth = last.lines[i].edges

\* A finished report with a line at depth 2 followed by a line at depth 1.
C3_Witness ==
    /\ HasReport
    /\ \E i \in 1 .. Len(last.lines) - 1 :
          /\ last.lines[i].depth = 2 /\ last.lines[i].edges = 2
          /\ last.lines[i + 1].depth = 1 /\ last.lines[i + 1].edges = 1

\* Thread t is inside a critical section of the AtomicStorage nodes of the Root:
\* the replacement of a field in commit, or the render of a field in visit.
InCommitSection(t) ==
    /\ pc[t] \in {"c_write1", "c_write2", "c_unlock"}
    /\ IsAtomic(arg[t].node)
InRenderSection(t) ==
    /\ pc[t] \in {"v_render", "v_unlock"}
    /\ IsAtomic(Top(t).node)
InSection(t) == t \in threads /\ (InCommitSection(t) \/ InRenderSection(t))

\* Thread t has just rendered the field of an AtomicStorage node and still
\* holds the lock.
JustRendered(t) == t \in threads /\ pc[t] = "v_unlock"

\* C4: under any interleaving of commits and visits on AtomicStorage nodes of
\* one Root, what a visit renders for an AtomicStorage node is the node's
\* initial value or the value of a commit on that node that has returned (here:
\* of the latest such commit at the time of the render), never a mixture of two
\* values and never a value no commit on that node wrote.
C4_NoTornRender ==
    /\ \A t \in threads : JustRendered(t) =>
          lines[t][Len(lines[t])].value = done[Top(t).node]
    /\ \A t \in threads : \A i \in 1 .. Len(lines[t]) :
          (lines[t][i].kind = "AtomicStorage" /\ (i < Len(lines[t]) \/ pc[t] # "v_render"))
              => lines[t][i].value \in Halves

\* A visit has rendered an AtomicStorage node's committed value while another
\* thread, in a commit of a different value on the same node, waits for the lock.
C4_Witness ==
    \E t \in threads, u \in threads :
        /\ t # u
        /\ JustRendered(t)
        /\ lines[t][Len(lines[t])].value \in Values
        /\ pc[u] = "c_lock"
        /\ arg[u].node = Top(t).node
        /\ arg[u].val # lines[t][Len(lines[t])].value

\* C5: for the AtomicStorage nodes of one Root, at most one thread at a time is
\* in a critical section (a field replacement of commit, a field render of
\* visit, on the same node or on different ones), and a thread in a critical
\* section holds the Root's mutex.
C5_MutualExclusion ==
    /\ \A t \in threads : InSection(t) => mutex = t
    /\ Cardinality({t \in threads : InSection(t)}) <= 1

\* One thread is in the critical section of one node while another waits for
\* the lock to commit to a different node.
C5_Witness ==
    \E t \in threads, u \in threads :
        /\ t # u
        /\ InSection(t)
        /\ pc[u] = "c_lock"
        /\ arg[u].node # (IF InCommitSection(t) THEN arg[t].node ELSE Top(t).node)

\* C6: with one thread, after commit(v) on an AtomicStorage node has returned,
\* the next Root.visit() with no commit on that node in between renders v on
\* every line of that node, whatever was committed before.
C6_RendersCommitted ==
    HasReport => \A i \in 1 .. Len(last.lines) :
        (last.lines[i].kind = "AtomicStorage" /\ last.lines[i].node \notin since)
            => last.lines[i].value = done[last.lines[i].node]

\* A finished report shows "bye" for an AtomicStorage node whose latest commit
\* was "bye" (a second commit: the first report showed something else).
C6_Witness ==
    /\ HasReport
    /\ prev # NoReport
    /\ \E i \in 1 .. Len(last.lines) :
        /\ last.lines[i].kind = "AtomicStorage"
        /\ last.lines[i].value = "bye"
        /\ done[last.lines[i].node] = "bye"
        /\ Len(prev.lines) >= i
        /\ prev.lines[i].value = "hello"

\* The characters of one piece of text written to the sink; a rendered value, a
\* header line and a tail line each count as one character.
Chars(chunk) ==
    CASE chunk = "  "  -> <<" ", " ">>
      [] chunk = " - " -> <<" ", "-", " ">>
      [] OTHER         -> <<chunk>>

RECURSIVE Flatten(_)
Flatten(q) == IF q = <<>> THEN <<>> ELSE Chars(Head(q)) \o Flatten(Tail(q))

RECURSIVE Copies(_, _)
Copies(k, q) == IF k = 0 THEN <<>> ELSE q \o Copies(k - 1, q)

\* The line of the report format for a value rendered at depth d, with the leaf
\* marker given: (d-1) two-space indents, the marker, the value, a newline.
FormatLine(d, v, marker) == Copies(d - 1, <<" ", " ">>) \o marker \o <<v, "\n">>

RECURSIVE FormatLines(_, _)
FormatLines(ls, marker) ==
    IF ls = <<>> THEN <<>>
    ELSE FormatLine(Head(ls).depth, Head(ls).value, marker)
         \o FormatLines(Tail(ls), marker)

\* A report's text between its header and its tail.
Body(text) == SubSeq(text, Len(header) + 1, Len(text) - Len(tail))

\* Every line of the remembered report has the format, with the given marker.
LinesFormatted(marker) ==
    HasReport => Flatten(Body(last.text)) = FormatLines(last.lines, marker)

\* Scenario A: Root's only child is an AtomicStorage without children whose
\* committed value is "hello", and a report of it is finished.
ScenarioA ==
    /\ HasReport
    /\ since = {}
    /\ children[Root] = <<1>>
    /\ kind[1] = "AtomicStorage"
    /\ children[1] = <<>>
    /\ done[1] = "hello"

\* C7 as stated: a line is (d-1) indents, the leaf marker, the value and a
\* newline, and Scenario A's body is the line ` -  hello`: space, dash, two
\* spaces, hello.
C7_AsStated ==
    /\ LinesFormatted(<<" ", "-", " ">>)
    /\ ScenarioA => Flatten(Body(last.text)) = <<" ", "-", " ", " ", "hello", "\n">>

\* C7, amended: a line is (d-1) copies of the two-space indent, the leaf marker
\* ` - ` (space, dash, space), the value and one newline; Scenario A's body is
\* the one line ` - hello`: space, dash, one space, hello.
C7_LineFormat ==
    /\ LinesFormatted(<<" ", "-", " ">>)
    /\ ScenarioA => Flatten(Body(last.text)) = <<" ", "-", " ", "hello", "\n">>

\* Scenario A has been reported.
C7_Witness == ScenarioA

RECURSIVE Count(_, _)
Count(q, x) ==
    IF q = <<>> THEN 0 ELSE (IF Head(q) = x THEN 1 ELSE 0) + Count(Tail(q), x)

\* C8: every Root.visit() writes the header once, before any line of the
\* traversal, and the tail (the footer line and two blank lines) once, after the
\* last line; the text of a traversal belongs to one visitor, made for it, that
\* is constructed, renders and is destroyed once.
C8_Framing ==
    /\ \A t \in threads : Visiting(t) =>
          /\ Len(out[t]) >= 2
          /\ SubSeq(out[t], 1, 2) = <<HeaderLine, "\n">>
          /\ Count(out[t], HeaderLine) = 1
          /\ Count(out[t], TailLine) = 0
    /\ \A t \in threads : ~Visiting(t) => out[t] = <<>>
    /\ HasReport =>
          /\ Len(last.text) >= 6
          /\ SubSeq(last.text, 1, 2) = <<HeaderLine, "\n">>
          /\ SubSeq(last.text, Len(last.text) - 3, Len(last.text))
                = <<TailLine, "\n", "\n", "\n">>
          /\ Count(last.text, HeaderLine) = 1
          /\ Count(last.text, TailLine) = 1

\* Two reports in a row were finished, each with lines between header and tail.
C8_Witness ==
    /\ HasReport
    /\ prev # NoReport
    /\ Len(last.lines) >= 2
    /\ Len(prev.lines) >= 2

\* C9: two Root.visit() calls in a row with no append, no commit and no release
\* of a handle between them give the same report: header, lines, order,
\* indentation, values and tail.
C9_Idempotent ==
    (HasReport /\ prev # NoReport /\ prevSince = {}) => prev = last

\* Two such reports, with a committed value on a line at depth 2.
C9_Witness ==
    /\ HasReport
    /\ prev # NoReport
    /\ prevSince = {}
    /\ \E i \in 1 .. Len(last.lines) :
          last.lines[i].depth = 2 /\ last.lines[i].value \in Values

\* The pc values of a thread inside commit().
CommitPcs == {"c_lock", "c_write1", "c_write2", "c_unlock"}

\* A step of a commit of thread t, from the call to the return, and the node
\* the commit is on.
CommitStepOf(t) == pc'[t] # pc[t] /\ (pc[t] \in CommitPcs \/ pc'[t] \in CommitPcs)
CommitNodeOf(t) == IF pc[t] = "idle" THEN arg'[t].node ELSE arg[t].node

\* Such a step changes nothing but the field of the commit's node.
CommitFrame ==
    \A t \in threads : CommitStepOf(t) =>
        /\ kind' = kind
        /\ held' = held
        /\ children' = children
        /\ \A m \in Nodes \ {CommitNodeOf(t)} : field'[m] = field[m]

\* Two reports in a row with only commits between them differ only in the
\* value on the lines of the nodes committed to.
CommitReports ==
    (HasReport /\ prev # NoReport) =>
        /\ Len(prev.lines) = Len(last.lines)
        /\ \A i \in 1 .. Len(last.lines) :
              /\ prev.lines[i].node = last.lines[i].node
              /\ prev.lines[i].depth = last.lines[i].depth
              /\ last.lines[i].node \notin prevSince
                    => prev.lines[i].value = last.lines[i].value
        /\ Len(prev.text) = Len(last.text)
        /\ \A j \in 1 .. Len(last.text) :
              prev.text[j] # last.text[j] =>
                  \E i \in 1 .. Len(last.lines) :
                      /\ last.lines[i].node \in prevSince
                      /\ last.lines[i].value = last.text[j]

\* C10: commit(v) on a storage node changes that node's field only: the other
\* nodes' fields, every child list and the liveness of every node stay as they
\* are, and the next report differs from the one before only on that node's
\* lines.
C10_CommitFrame == []CommitReports /\ [][CommitFrame]_vars

\* Scenario C: between two reports the depth-1 node alone was committed to; its
\* line changed from hello to bye and its child's line is as before.
C10_Witness ==
    /\ HasReport
    /\ prev # NoReport
    /\ Len(last.lines) >= 2
    /\ prevSince = {last.lines[1].node}
    /\ prev.lines[1].value = "hello"
    /\ last.lines[1].value = "bye"
    /\ last.lines[2].depth = 2
    /\ last.lines[2].node # last.lines[1].node
    /\ last.lines[2].value = prev.lines[2].value

\* ---------------------------------------------------------------------- C11
\* A thread is in a call of trim().
InTrim(t) == t \in threads /\ pc[t] = "trim"

\* C11: every call of trim() ends in the fatal failure state: the step that
\* ends a call never returns to the caller, it aborts the process, and it
\* leaves every child list as it was.
C11_TrimIsFatal ==
    [][\A t \in threads :
          (InTrim(t) /\ pc'[t] # "trim") =>
              (pc'[t] = "aborted" /\ children' = children)]_vars

\* ---------------------------------------------------------------------- C12
\* The lock an AtomicStorage node refers to: Root::mutex_, bound in the
\* constructor from the Root that created the node; it lives as long as the Root.
LockAlive(n) == rootAlive

\* C12: in every reachable state, the Root that created a live AtomicStorage
\* node, and so the lock the node refers to, is still alive.
C12_LockOutlivesNodes ==
    \A n \in Nodes : (Alive(n) /\ IsAtomic(n)) => LockAlive(n)

\* ---------------------------------------------------------------------- C13
\* A traversal is inside n: an activation of n's visit is on a thread's stack,
\* and with it the `pointer` that weak_ptr::lock() returned.
Inside(n) ==
    \E t \in threads : \E i \in 1 .. Len(stack[t]) : stack[t][i].node = n

\* The step drops the last external strong handle of n.
Released(n) == held[n] /\ ~held'[n]

\* C13 as stated: as soon as the last external handle of a node is released
\* the node is destroyed, whether or not a traversal by another thread is in
\* progress.
C13_AsStated ==
    [][\A n \in Nodes : Released(n) => kind'[n] = "destroyed"]_vars

\* No parent keeps a child alive.
OwnedByUsersOnly == \A n \in Nodes : Alive(n) => (held[n] \/ Inside(n))

\* The release destroys the node at once, unless a traversal is inside it.
ReleaseDestroys ==
    \A n \in Nodes : Released(n) => (kind'[n] = "destroyed" <=> ~Inside(n))

\* C13 (amended): a live node is held by a caller or is being visited, however
\* many parents have appended it; the release of the last handle destroys the
\* node at once, except when a traversal is inside the node at that moment,
\* and then the node lives only until that traversal has left it.
C13_NoParentOwnership == []OwnedByUsersOnly /\ [][ReleaseDestroys]_vars

\* A node that two child references name has been destroyed.
C13_Witness == \E n \in Nodes : kind[n] = "destroyed" /\ Appended(n) >= 2

\* ---------------------------------------------------------------------- C14
\* Where a traversal is about to resolve a child reference, to enter a child's
\* visit and write its prefix ("loop"), to write a suffix ("v_suffix"), or to
\* take the lock ("v_lock").
OutsideRender(t) == Visiting(t) /\ pc[t] \in {"loop", "v_lock", "v_suffix"}

\* Where a traversal renders the field of an AtomicStorage node.
RendersAtomic(t) ==
    /\ Visiting(t)
    /\ pc[t] \in {"v_render", "v_unlock"}
    /\ Top(t).node \in Nodes
    /\ kind[Top(t).node] = "AtomicStorage"

\* C14: a visiting thread holds the Root's lock only while it renders one
\* AtomicStorage field; where it writes a prefix or a suffix, resolves a child
\* reference, enters a child's visit or is about to take the lock, it does not
\* hold the lock.
C14_LockOnlyAroundRender ==
    \A t \in threads :
        /\ OutsideRender(t) => mutex # t
        /\ (Visiting(t) /\ pc[t] # "aborted" /\ mutex = t) => RendersAtomic(t)

\* A traversal has rendered an AtomicStorage field and is about to write the
\* suffix while another thread already has the lock.
C14_Witness ==
    \E t \in threads :
        /\ Visiting(t)
        /\ pc[t] = "v_suffix"
        /\ kind[Top(t).node] = "AtomicStorage"
        /\ mutex \in threads \ {t}

\* ---------------------------------------------------------------------- C15
\* A call of commit or of Root::visit by t has started and has not returned.
InCall(t) == t \in threads /\ pc[t] # "idle"

StepFrom(S) ==
    {c \in Nodes : Alive(c) /\ \E p \in S : c \in Range(children[p])}

RECURSIVE Descend(_, _)
Descend(S, k) == IF k = 0 THEN S ELSE Descend(S \cup StepFrom(S), k - 1)

\* The live nodes one or more live child references below n.
Below(n) == Descend(StepFrom({n}), MaxNodes)

\* A cycle of live nodes can be reached from Root.
LiveCycleReachable == \E n \in LiveReach : n \in Below(n)

\* A step of t's traversal can be taken.
CanStep(t) ==
    ENABLED (\/ visitChild(t) \/ visitSkip(t) \/ visitLock(t) \/ visitRender(t)
             \/ visitUnlock(t) \/ visitSuffix(t) \/ visitReturn(t)
             \/ visitFinish(t))

\* A traversal of a graph with a reachable live cycle does not return.
NeverFinishes ==
    \A t \in threads :
        (Visiting(t) /\ pc[t] # "aborted" /\ LiveCycleReachable) => pc'[t] # "idle"

\* Such a traversal stops nowhere below the depth at which the model stops
\* counting: short of that depth it always has a next step.
DescendsToCap ==
    \A t \in threads :
        (Visiting(t) /\ pc[t] # "aborted" /\ LiveCycleReachable /\ ~CanStep(t))
            => depth[t] = DepthCap

\* C16: append takes a child that closes a cycle; once a cycle of live nodes
\* can be reached from Root, Root.visit() does not return and visitor.depth
\* grows as far as it is counted.
C16_CycleNeverEnds == []DescendsToCap /\ [][NeverFinishes]_vars

\* A node appended to itself is reachable from Root and a traversal has gone
\* down to a depth no graph without a cycle has.
C16_Witness ==
    \E t \in threads, n \in Nodes :
        /\ n \in Range(children[n])
        /\ n \in LiveReach
        /\ Visiting(t)
        /\ depth[t] = DepthCap

\* ---------------------------------------------------------------------- C17
\* The paths of d child references that start with an entry of list q and end
\* at n, every node on them alive.  An entry counts as often as it is listed.
RECURSIVE LivePaths(_, _, _)
LivePaths(q, n, d) ==
    IF q = <<>> \/ d = 0 THEN 0
    ELSE LET c == Head(q)
             here == IF ~Alive(c) THEN 0
                     ELSE IF d = 1 THEN (IF c = n THEN 1 ELSE 0)
                     ELSE LivePaths(children[c], n, d - 1)
         IN  here + LivePaths(Tail(q), n, d)

\* The lines of a report for node n at depth d.
RECURSIVE LinesAt(_, _, _)
LinesAt(ls, n, d) ==
    IF ls = <<>> THEN 0
    ELSE (IF Head(ls).node = n /\ Head(ls).depth = d THEN 1 ELSE 0)
         + LinesAt(Tail(ls), n, d)

\* C17: in one finished report of Root.visit() a node has, for every depth d,
\* as many lines at depth d as there are live paths of d child references
\* from Root to it, so as many lines in all as there are live paths, whether
\* the paths go through several parents or through one parent that lists the
\* node several times.
C17_OneLinePerLivePath ==
    HasReport =>
        \A n \in Nodes, d \in 1 .. DepthCap :
            LinesAt(last.lines, n, d) = LivePaths(children[Root], n, d)

\* A report in which a node appended to Root and to another node has one line
\* at depth 1 and one at depth 2.
C17_Witness ==
    /\ HasReport
    /\ \E n \in Nodes :
          /\ LinesAt(last.lines, n, 1) = 1
          /\ LinesAt(last.lines, n, 2) = 1
          /\ Appended(n) = 2

\* ---------------------------------------------------------------------- C18
\* The traversal of t uses a visitor whose class overrides header() and tail().
Styled(t) == Visiting(t) /\ pc[t] # "aborted" /\ vtype[t] = "Styled"

\* What such a traversal has written starts with the overriding header.
OverridingHeaderUsed ==
    \A t \in threads : Styled(t) =>
        /\ Len(out[t]) >= Len(OverridingHeader)
        /\ SubSeq(out[t], 1, Len(OverridingHeader)) = OverridingHeader

\* The report such a traversal finishes ends with the overriding footer.
OverridingTailUsed ==
    \A t \in threads : (Styled(t) /\ pc'[t] = "idle" /\ last' # NoReport) =>
        /\ Len(last'.text) >= Len(OverridingTail)
        /\ SubSeq(last'.text, Len(last'.text) - Len(OverridingTail) + 1,
                  Len(last'.text)) = OverridingTail

\* C18: the report of a traversal whose visitor overrides header() and tail()
\* is framed by the overriding header and footer, not by Visitor's own.
C18_OverridesFrame == []OverridingHeaderUsed /\ [][OverridingTailUsed]_vars

\* ---------------------------------------------------------------------- C19
\* The activations of Node::visit(visitor, children) a thread is inside of
\* that have counted visitor.depth up and not yet down again.
Counted(t) == IF AtNode(t) THEN Len(stack[t]) - 1 ELSE Len(stack[t])

\* visitor.depth is the number of such activations: each call that has
\* returned has left it as it found it, and outside a traversal it is 0.
DepthBalanced ==
    \A t \in threads : pc[t] # "aborted" =>
        /\ depth[t] = Counted(t)
        /\ ~Visiting(t) => depth[t] = DepthAtRest

\* A step that counts visitor.depth down takes 1 from a depth of at least 1.
NoWrapAround ==
    \A t \in threads : depth'[t] < depth[t] =>
        (depth[t] >= 1 /\ depth'[t] = depth[t] - 1)

\* A visit of a child that returns leaves visitor.depth as it was when the
\* parent's loop entered the child.
ReturnRestores ==
    \A t \in threads :
        (Visiting(t) /\ pc[t] = "loop" /\ Len(stack'[t]) = Len(stack[t]) - 1) =>
            depth'[t] = Len(stack'[t])

\* C19: the depth is balanced: after a visit has returned, with children
\* rendered or passed over as dead, visitor.depth is what it was before the
\* call; it is never counted down below 0 and is 0 when the traversal ends.
C19_DepthBalanced ==
    []DepthBalanced /\ [][NoWrapAround /\ ReturnRestores]_vars

\* A traversal has ended at depth 0 after it rendered one child of Root and
\* passed over another that was dead.
C19_Witness ==
    /\ HasReport
    /\ \A t \in threads : depth[t] = DepthAtRest /\ pc[t] = "idle"
    /\ \E a \in Range(children[Root]), b \in Range(children[Root]) :
          kind[a] = "destroyed" /\ Alive(b)

====
